---- MODULE Spec2Model ----
(***************************************************************************)
(* fsqd: a download queue manager.  The persisted store (diskcache) holds  *)
(* four ordered lists of queue items; a single worker thread runs the      *)
(* scrape-then-stream download protocol; the request handlers run on the   *)
(* main thread's event loop.  Every cache get/set, every progress_store    *)
(* access and every access of the cancellation registry is one step, so    *)
(* the worker thread and the main thread interleave at that grain.         *)
(***************************************************************************)
EXTENDS Integers, Sequences, FiniteSets, TLC

\* ---------------------------------------------------------------- bounds
MaxItems == 2
MaxForms == 2
\* requests the web application receives in one run
MaxRequests == 2
\* the network when the worker runs alone: chunks of one body, backoff waits
\* of one attempt
MaxChunks == 3
MaxWaits == 4
\* the same while requests race with the worker
RaceChunks == 1
RaceWaits == 1

\* ------------------------------------------------------ program constants
max_retries == 3

ACTIVE_KEY == "queue_active"
FAILED_KEY == "queue_failed"
COMPLETED_KEY == "queue_completed"
DOWNLOADED_KEY == "queue_downloaded"

Keys == {ACTIVE_KEY, FAILED_KEY, COMPLETED_KEY, DOWNLOADED_KEY}

Ids == 1..MaxItems

\* Python's None in the error field, and "no progress entry" / "no item".
None == "None"
NoEntry == -1
NoItem == 0

\* ------------------------------------------------------------- messages
ErrCancelled == "Download cancelled by user"
ErrInterrupted == "Download interrupted - please retry"
ErrNoForm == "Could not get download form"
ErrNoFormRetry == "Could not get download form after retry"
ErrMaxRetries == "Max retries reached for HTML response"
ErrRequestFailed == "Download request failed: 503"
ErrRetryFailed == "Retry failed: 503"
ErrException == "Connection reset by peer"

ErrInvalidType(ct) ==
    IF ct = <<"text", "plain">> THEN "Invalid content type: text/plain"
    ELSE "Invalid content type: other"

\* ----------------------------------------------------------------- state
VARIABLES
    queue_cache,             \* key -> list of QueueItem records
    progress_store,          \* id -> percent, NoEntry when absent
    download_cancel_events,  \* id -> "absent" | "clear" | "set"
    next_id,                 \* identifiers handed out so far
    network,                 \* what the network may do in this run
    n_requests,              \* requests received so far
    \* the worker thread
    w_pc, w_id, w_first, w_second, w_err,
    w_retry_count, w_stack,
    w_answers,               \* what the network answered in this attempt
    w_waits,                 \* the backoff sleeps of this attempt
    w_total, w_body, w_downloaded, w_last_progress,
    \* the main thread: startup, then one request handler at a time
    h_pc, h_op, h_id, h_first, h_second, h_event

shared == <<queue_cache, progress_store, download_cancel_events, next_id,
            network, n_requests>>
net == <<next_id, network, n_requests>>
store == <<queue_cache, progress_store, download_cancel_events, next_id,
           network>>
wproto == <<w_retry_count, w_stack, w_answers, w_waits>>
wstream == <<w_total, w_body, w_downloaded, w_last_progress>>
wlists == <<w_first, w_second>>
wvars == <<w_pc, w_id, w_first, w_second, w_err, w_retry_count, w_stack,
           w_answers, w_waits, w_total, w_body, w_downloaded, w_last_progress>>
hvars == <<h_pc, h_op, h_id, h_first, h_second, h_event>>
vars == <<queue_cache, progress_store, download_cancel_events, next_id,
          network, n_requests,
          w_pc, w_id, w_first, w_second, w_err, w_retry_count, w_stack,
          w_answers, w_waits, w_total, w_body, w_downloaded, w_last_progress,
          h_pc, h_op, h_id, h_first, h_second, h_event>>

\* ------------------------------------------------------- list operations
\* A queue item: url and added_at play no part and are left out.  NewItem is
\* add_to_queue_handler's new_item; QueueItem is a record of an earlier run,
\* whose scrape found the title and the size.
NewItem(id, title, size) ==
    [id |-> id, status |-> "pending", error |-> None, title |-> title, size |-> size]

QueueItem(id, status, error) ==
    [id |-> id, status |-> status, error |-> error, title |-> "File", size |-> "1 GB"]

RECURSIVE FindFrom(_, _, _)
FindFrom(items, item_id, i) ==
    IF i > Len(items) THEN 0
    ELSE IF items[i].id = item_id THEN i
    ELSE FindFrom(items, item_id, i + 1)

\* _find_index: the first position holding the id, 0 for None.
_find_index(items, item_id) == FindFrom(items, item_id, 1)

Pop(items, idx) ==
    SubSeq(items, 1, idx - 1) \o SubSeq(items, idx + 1, Len(items))

Swap(items, i, j) == [items EXCEPT ![i] = items[j], ![j] = items[i]]

IdsOf(items) == {items[j].id : j \in 1..Len(items)}

Occurrences(items, item_id) ==
    Cardinality({j \in 1..Len(items) : items[j].id = item_id})

get_active == queue_cache[ACTIVE_KEY]
get_failed == queue_cache[FAILED_KEY]
get_completed == queue_cache[COMPLETED_KEY]
get_downloaded == queue_cache[DOWNLOADED_KEY]

_save_list(key, items) == queue_cache' = [queue_cache EXCEPT ![key] = items]

\* The record each store operation writes for the record it read.
StampDownloading(item) == [item EXCEPT !.status = "downloading"]

\* A completion that leaves the record as it was read.
StampCompletedKeepsStatus(item) == item

\* mark_completed's stamp of the record it moves.
StampCompleted(item) == [item EXCEPT !.status = "completed", !.error = None]

\* A failure that leaves the error of the record as it was read.
StampFailedKeepsError(item, error) == [item EXCEPT !.status = "failed"]

\* mark_failed's stamp of the record it moves.
StampFailed(item, error) == [item EXCEPT !.status = "failed", !.error = error]

\* A retry that clears the error and leaves the status as it was read.
StampRetryKeepsStatus(item) == [item EXCEPT !.error = None]

\* retry_failed's stamp of the record it moves.
StampRetry(item) == [item EXCEPT !.status = "pending", !.error = None]

\* A reset that changes the status and leaves the error as it was.
StampResetKeepsError(item) ==
    IF item.status = "downloading"
    THEN [item EXCEPT !.status = "pending"]
    ELSE item

\* reset_stuck_downloads' rewrite of one record.
StampReset(item) ==
    IF item.status = "downloading"
    THEN [item EXCEPT !.status = "pending", !.error = ErrInterrupted]
    ELSE item

\* mark_downloading's write: the status of the record at idx replaced.
MarkedDownloading(items, idx) ==
    [items EXCEPT ![idx] = StampDownloading(items[idx])]

\* move_in_queue's list after the swap (unchanged at either boundary).
Moved(items, idx, direction) ==
    IF direction = "up" /\ idx > 1 THEN Swap(items, idx, idx - 1)
    ELSE IF direction = "down" /\ idx < Len(items) THEN Swap(items, idx, idx + 1)
    ELSE items

\* A reset that leaves the list as it read it.
ResetNothing(items) == items

\* reset_stuck_downloads' rewrite of the active list.
RECURSIVE ResetList(_)
ResetList(items) ==
    IF items = <<>> THEN <<>>
    ELSE <<StampReset(Head(items))>> \o ResetList(Tail(items))

\* update_item_progress: the entry is created at 0 when absent, then the
\* percent is written unless it is None (NoEntry stands for None here).
update_item_progress(item_id, progress) ==
    progress_store' =
        [progress_store EXCEPT ![item_id] =
            IF progress # NoEntry THEN progress
            ELSE IF progress_store[item_id] = NoEntry THEN 0
            ELSE progress_store[item_id]]

\* download_worker's scan: the id of the first item with status pending.
RECURSIVE FirstPendingFrom(_, _)
FirstPendingFrom(items, i) ==
    IF i > Len(items) THEN NoItem
    ELSE IF items[i].status = "pending" THEN items[i].id
    ELSE FirstPendingFrom(items, i + 1)

\* A scan that takes the last pending item of the list.
LastPending(items) ==
    LET pending == {j \in 1..Len(items) : items[j].status = "pending"}
    IN  IF pending = {} THEN NoItem
        ELSE items[CHOOSE j \in pending : \A k \in pending : k <= j].id

FirstPending(items) == FirstPendingFrom(items, 1)

\* _get_pending_item: the first record with the id, and it must be pending.
IsPendingItem(items, item_id) ==
    LET idx == _find_index(items, item_id)
    IN  idx # 0 /\ items[idx].status = "pending"

\* ------------------------------------------------------------ the network
\* A Content-Type header as <<type, subtype>>.
ContentTypes ==
    { <<"application", "octet-stream">>, <<"application", "force-download">>,
      <<"video", "mp4">>, <<"audio", "mpeg">>,
      <<"text", "html">>, <<"text", "plain">> }

\* _download_file_content's allow-list.
IsAllowedType(ct) ==
    \/ ct = <<"application", "octet-stream">>
    \/ ct = <<"application", "force-download">>
    \/ ct[1] = "video"
    \/ ct[1] = "audio"

IsHtmlType(ct) == ct = <<"text", "html">>

\* What _download_file_content does with a 200 response of this type.
AnswerKind(ct) ==
    IF IsAllowedType(ct) THEN "stream"
    ELSE IF IsHtmlType(ct) THEN "html"
    ELSE "invalid"

\* A page is its forms in document order, each form given by its action:
\* "free" begins with /free/, "other" does not, "empty" is missing or "".
FormActions == {"free", "other", "empty"}

Pages == UNION {[1..n -> FormActions] : n \in 0..MaxForms}

RECURSIVE FirstFreeFrom(_, _)
FirstFreeFrom(page, i) ==
    IF i > Len(page) THEN 0
    ELSE IF page[i] = "free" THEN i
    ELSE FirstFreeFrom(page, i + 1)

\* _get_download_form: the position of the form it resolves to, 0 for None.
_get_download_form(page) ==
    IF Len(page) = 0 THEN 0
    ELSE IF page[1] = "empty" THEN 0
    ELSE IF page[1] = "free" THEN 1
    ELSE FirstFreeFrom(page, 1)

\* What the GET of the item's page gives extract_file_info: an exception, a
\* status, and in the page the h1.section_title and td.footer-video-size
\* elements (None when the page has none).
MetadataPages ==
    { [raises |-> FALSE, status |-> 200, title |-> "File", size |-> "1 GB"],
      [raises |-> FALSE, status |-> 200, title |-> None, size |-> "1 GB"],
      [raises |-> FALSE, status |-> 200, title |-> "File", size |-> None],
      [raises |-> FALSE, status |-> 503, title |-> "File", size |-> "1 GB"],
      [raises |-> TRUE, status |-> 200, title |-> "File", size |-> "1 GB"] }

\* A scrape that hands on what it found, placeholders or not.
ExtractNoPlaceholders(page) == <<page.title, page.size>>

\* extract_file_info: <<title, size>>, with the placeholders for whatever
\* the scrape did not find.
extract_file_info(page) ==
    IF page.raises \/ page.status # 200 THEN <<"Unknown", "Unknown size">>
    ELSE << IF page.title = None THEN "Unknown" ELSE page.title,
            IF page.size = None THEN "Unknown size" ELSE page.size >>

\* int((downloaded / total_size) * 100)
Percent(downloaded, total_size) == (downloaded * 100) \div total_size

RECURSIVE Pow2(_)
Pow2(n) == IF n = 0 THEN 1 ELSE 2 * Pow2(n - 1)

\* ----------------------------------------------------------------- Init
\* What the store can hold when the process starts: nothing, or the lists
\* an earlier run left behind when it was stopped in the middle of a download.
PersistedActive ==
    { <<>>,
      <<QueueItem(1, "downloading", None)>>,
      <<QueueItem(1, "pending", None), QueueItem(2, "downloading", None)>> }

WorkerIdle ==
    /\ w_id = NoItem
    /\ w_first = <<>>
    /\ w_second = <<>>
    /\ w_err = None
    /\ w_retry_count = -1
    /\ w_stack = <<>>
    /\ w_answers = <<>>
    /\ w_waits = <<>>
    /\ w_total = 0
    /\ w_body = 0
    /\ w_downloaded = 0
    /\ w_last_progress = -1

HandlerIdle ==
    /\ h_op = "none"
    /\ h_id = NoItem
    /\ h_first = <<>>
    /\ h_second = <<>>
    /\ h_event = FALSE

InitStore ==
    /\ \E act \in PersistedActive :
          /\ queue_cache = [k \in Keys |-> IF k = ACTIVE_KEY THEN act ELSE <<>>]
          /\ next_id = Len(act)
    /\ n_requests = 0
    /\ progress_store = [i \in Ids |-> NoEntry]
    /\ download_cancel_events = [i \in Ids |-> "absent"]
    /\ w_pc = "not_started"
    /\ WorkerIdle
    /\ h_pc = "reset_load"
    /\ HandlerIdle

\* Requests racing with the worker: a network that raises, answers
\* text/html or streams a short body.
Init ==
    /\ InitStore
    /\ network = [chunks |-> RaceChunks, waits |-> RaceWaits,
                  answers |-> {"exception", "html", "stream"}, pages |-> Pages]

\* The worker with no request arriving: every answer the protocol tells apart.
WorkerInit ==
    /\ InitStore
    /\ network = [chunks |-> MaxChunks, waits |-> MaxWaits,
                  answers |-> {"exception", "html", "stream", "status",
                               "invalid", "no_form"},
                  pages |-> Pages]

\* The worker with no request arriving and a server that serves one page,
\* any page of up to MaxForms forms.
FormInit ==
    /\ InitStore
    /\ \E page \in Pages :
          network = [chunks |-> RaceChunks, waits |-> RaceWaits,
                     answers |-> {"exception", "html", "stream", "status",
                                  "invalid", "no_form"},
                     pages |-> {page}]

\* -------------------------------------------------------------- startup
\* reset_stuck_downloads, run to completion by asyncio.run before the worker
\* thread is started and before the web application serves requests.
ResetLoad ==
    /\ h_pc = "reset_load"
    /\ h_first' = get_active
    /\ h_pc' = IF \E j \in 1..Len(get_active) : get_active[j].status = "downloading"
               THEN "reset_save" ELSE "reset_progress"
    /\ h_op' = "reset_stuck_downloads"
    /\ UNCHANGED <<shared, wvars, h_id, h_second, h_event>>

ResetSave ==
    /\ h_pc = "reset_save"
    /\ _save_list(ACTIVE_KEY, ResetList(h_first))
    /\ h_first' = ResetList(h_first)
    /\ h_pc' = "reset_progress"
    /\ UNCHANGED <<progress_store, download_cancel_events, net, wvars,
                   h_op, h_id, h_second, h_event>>

ResetProgress ==
    /\ h_pc = "reset_progress"
    /\ progress_store' =
          [i \in Ids |->
              IF \E j \in 1..Len(h_first) :
                    h_first[j].id = i /\ h_first[j].status = "pending"
              THEN 0 ELSE progress_store[i]]
    /\ h_pc' = "start_worker"
    /\ UNCHANGED <<queue_cache, download_cancel_events, net, wvars,
                   h_op, h_id, h_first, h_second, h_event>>

start_download_worker ==
    /\ h_pc = "start_worker"
    /\ w_pc = "not_started"
    /\ w_pc' = "first_scan"
    /\ h_pc' = "idle"
    /\ h_op' = "none"
    /\ h_first' = <<>>
    /\ UNCHANGED <<shared, w_id, w_first, w_second, w_err, wproto, wstream,
                   h_id, h_second, h_event>>

\* ----------------------------------------------------------- the worker
\* download_worker: read the active list and take the first pending item;
\* with none, sleep 2 and read again.  The worker is at "first_scan" until
\* its first read of the list.
WorkerScan ==
    /\ w_pc \in {"first_scan", "scan"}
    /\ LET pending_item == FirstPending(get_active)
       IN  IF pending_item # NoItem
           THEN w_id' = pending_item /\ w_pc' = "get_pending"
           ELSE w_pc' = "scan" /\ UNCHANGED w_id
    /\ UNCHANGED <<shared, hvars, wlists, w_err, wproto, wstream>>

\* download_file: _get_pending_item; the call returns when the item is not
\* there or not pending, and the worker sleeps before its next iteration.
GetPendingItem ==
    /\ w_pc = "get_pending"
    /\ w_pc' = IF IsPendingItem(get_active, w_id) THEN "md_load" ELSE "sleep"
    /\ UNCHANGED <<shared, hvars, w_id, wlists, w_err, wproto, wstream>>

\* mark_downloading: the read; an absent item is logged and the download
\* goes on all the same.
MarkDownloadingLoad ==
    /\ w_pc = "md_load"
    /\ w_first' = get_active
    /\ w_pc' = IF _find_index(get_active, w_id) # 0 THEN "md_save" ELSE "setup"
    /\ UNCHANGED <<shared, hvars, w_id, w_second, w_err, wproto, wstream>>

MarkDownloadingSave ==
    /\ w_pc = "md_save"
    /\ _save_list(ACTIVE_KEY, MarkedDownloading(w_first, _find_index(w_first, w_id)))
    /\ w_pc' = "setup"
    /\ UNCHANGED <<progress_store, download_cancel_events, net, hvars,
                   w_id, wlists, w_err, wproto, wstream>>

_setup_cancel_event ==
    /\ w_pc = "setup"
    /\ download_cancel_events' = [download_cancel_events EXCEPT ![w_id] = "clear"]
    /\ w_pc' = "progress0"
    /\ UNCHANGED <<queue_cache, progress_store, net, hvars,
                   w_id, wlists, w_err, wproto, wstream>>

\* download_file: update_item_progress(item_id, 0, "")
InitProgress ==
    /\ w_pc = "progress0"
    /\ update_item_progress(w_id, 0)
    /\ w_pc' = "get_form"
    /\ UNCHANGED <<queue_cache, download_cancel_events, net, hvars,
                   w_id, wlists, w_err, wproto, wstream>>

\* A return that skips the cleanup (it is in no finally clause).
ReturnsWithoutCleanup == "sleep"

\* download_file's finally clause is where every path of the attempt ends.
AttemptReturns == "cleanup"

\* A cleanup that deletes nothing.
UnregisterNothing(events, item_id) == events

\* _cleanup_cancel_event's deletion of the registry entry.
Unregister(events, item_id) == [events EXCEPT ![item_id] = "absent"]

\* mark_failed(item_id, error) is what every failing path goes to next.
Fail(error) == w_err' = error /\ w_pc' = "mf_load"

\* _handle_html_response(retry_count): at the cap the item is failed, below
\* it the call sleeps 2^retry_count and fetches the form again.  stack holds
\* the retry_count of every enclosing call that is inside its try block.
HandleHtmlResponse(retry_count, stack) ==
    /\ w_stack' = stack
    /\ IF retry_count >= max_retries
       THEN /\ Fail(ErrMaxRetries)
            /\ UNCHANGED <<w_retry_count, w_waits>>
       ELSE /\ Len(w_waits) < network.waits
            /\ w_waits' = Append(w_waits, Pow2(retry_count))
            /\ w_retry_count' = retry_count
            /\ w_pc' = "get_form"
            /\ UNCHANGED w_err

\* An exception that nothing catches: the worker's task ends.
RaiseEndsWorker(stack) ==
    /\ w_pc' = "stopped"
    /\ w_err' = ErrException
    /\ UNCHANGED <<w_retry_count, w_stack, w_waits>>

\* An exception: the innermost enclosing try block of _handle_html_response
\* catches it and calls itself with retry_count + 1; with none, download_file's
\* except clause fails the item with the exception's message.
Raise(stack) ==
    IF stack = <<>>
    THEN Fail(ErrException) /\ UNCHANGED <<w_retry_count, w_stack, w_waits>>
    ELSE HandleHtmlResponse(stack[Len(stack)] + 1, SubSeq(stack, 1, Len(stack) - 1))

\* _get_download_form, called by download_file and by _handle_html_response
\* (which then enters its try block).
GetDownloadForm ==
    /\ w_pc = "get_form"
    /\ \/ \E page \in network.pages :
             /\ _get_download_form(page) = 0 => "no_form" \in network.answers
             /\ IF _get_download_form(page) # 0
                THEN /\ w_answers' = Append(w_answers, "form")
                     /\ w_pc' = "post"
                     /\ w_stack' = IF w_retry_count >= 0
                                   THEN Append(w_stack, w_retry_count) ELSE w_stack
                     /\ UNCHANGED <<w_err, w_retry_count, w_waits>>
                ELSE /\ w_answers' = Append(w_answers, "no_form")
                     /\ Fail(IF w_retry_count >= 0 THEN ErrNoFormRetry ELSE ErrNoForm)
                     /\ UNCHANGED <<w_retry_count, w_stack, w_waits>>
       \/ /\ "exception" \in network.answers
          /\ w_answers' = Append(w_answers, "exception")
          /\ Raise(w_stack)
    /\ UNCHANGED <<shared, hvars, w_id, wlists, wstream>>

\* A type that is not text/html answered like text/html: wait and retry.
InvalidTypeRetries(ct) ==
    /\ HandleHtmlResponse(0, w_stack)
    /\ UNCHANGED wstream

\* _download_file_content on a type that is neither on the allow-list nor
\* text/html: mark_failed with the type in the message, and return.
InvalidContentType(ct) ==
    /\ Fail(ErrInvalidType(ct))
    /\ UNCHANGED <<w_retry_count, w_stack, w_waits, wstream>>

\* session.post in _perform_download and in _handle_html_response, and the
\* content-type test of _download_file_content on its response.
PostForm ==
    /\ w_pc = "post"
    /\ \/ /\ "exception" \in network.answers
          /\ w_answers' = Append(w_answers, "exception")
          /\ Raise(w_stack)
          /\ UNCHANGED wstream
       \/ /\ "status" \in network.answers
          /\ w_answers' = Append(w_answers, "status")
          /\ Fail(IF w_retry_count >= 0 THEN ErrRetryFailed ELSE ErrRequestFailed)
          /\ UNCHANGED <<w_retry_count, w_stack, w_waits, wstream>>
       \/ \E ct \in ContentTypes :
             /\ AnswerKind(ct) \in network.answers
             /\ IF IsAllowedType(ct)
                THEN /\ w_answers' = Append(w_answers, "stream")
                     /\ \E n \in 1..network.chunks, has_length \in BOOLEAN :
                           /\ w_body' = n
                           /\ w_total' = IF has_length THEN n ELSE 0
                     /\ w_downloaded' = 0
                     /\ w_last_progress' = -1
                     /\ w_pc' = "chunk"
                     /\ UNCHANGED <<w_err, w_retry_count, w_stack, w_waits>>
                ELSE IF IsHtmlType(ct)
                THEN /\ w_answers' = Append(w_answers, "html")
                     /\ HandleHtmlResponse(0, w_stack)
                     /\ UNCHANGED wstream
                ELSE /\ w_answers' = Append(w_answers, "invalid")
                     /\ InvalidContentType(ct)
    /\ UNCHANGED <<shared, hvars, w_id, wlists>>

\* The locals of _download_file_content are gone when it returns or raises.
StreamEnds ==
    /\ w_total' = 0
    /\ w_body' = 0
    /\ w_downloaded' = 0
    /\ w_last_progress' = -1

\* One turn of the chunk loop up to the test of the cancellation signal:
\* the body ends, the read raises, or a chunk arrives and is written.
ReadChunk ==
    /\ w_pc = "chunk"
    /\ IF w_downloaded = w_body
       THEN w_pc' = "progress100" /\ StreamEnds /\ UNCHANGED <<w_err, wproto>>
       ELSE \/ /\ "exception" \in network.answers
               /\ w_answers' = Append(w_answers, "exception")
               /\ Raise(w_stack) /\ StreamEnds
            \/ IF download_cancel_events[w_id] = "set"
               THEN Fail(ErrCancelled) /\ StreamEnds /\ UNCHANGED wproto
               ELSE /\ w_downloaded' = w_downloaded + 1
                    /\ w_pc' = "chunk_progress"
                    /\ UNCHANGED <<w_err, wproto, w_total, w_body, w_last_progress>>
    /\ UNCHANGED <<shared, hvars, w_id, wlists>>

\* The progress update after a chunk: the timed branch writes whatever the
\* percent is, the other branch only a percent above last_progress.
ChunkProgress ==
    /\ w_pc = "chunk_progress"
    /\ \E timed \in BOOLEAN :
          LET progress == IF w_total > 0 THEN Percent(w_downloaded, w_total)
                          ELSE NoEntry
          IN  IF timed
              THEN /\ update_item_progress(w_id, progress)
                   /\ w_last_progress' = IF progress > 0 THEN progress
                                         ELSE w_last_progress
              ELSE IF w_total > 0 /\ progress > w_last_progress
              THEN /\ update_item_progress(w_id, progress)
                   /\ w_last_progress' = progress
              ELSE UNCHANGED <<progress_store, w_last_progress>>
    /\ w_pc' = "chunk"
    /\ UNCHANGED <<queue_cache, download_cancel_events, net, hvars, w_id,
                   wlists, w_err, wproto, w_total, w_body, w_downloaded>>

\* _download_file_content: update_item_progress(item_id, 100, "")
FinalProgress ==
    /\ w_pc = "progress100"
    /\ update_item_progress(w_id, 100)
    /\ w_pc' = "mc_load"
    /\ UNCHANGED <<queue_cache, download_cancel_events, net, hvars,
                   w_id, wlists, w_err, wproto, wstream>>

\* mark_completed, one cache access at a time.
MarkCompletedLoad ==
    /\ w_pc = "mc_load"
    /\ w_first' = get_active
    /\ w_pc' = IF _find_index(get_active, w_id) # 0 THEN "mc_load_completed"
               ELSE AttemptReturns
    /\ UNCHANGED <<shared, hvars, w_id, w_second, w_err, wproto, wstream>>

MarkCompletedLoadCompleted ==
    /\ w_pc = "mc_load_completed"
    /\ w_second' = get_completed
    /\ w_pc' = "mc_save_active"
    /\ UNCHANGED <<shared, hvars, w_id, w_first, w_err, wproto, wstream>>

MarkCompletedSaveActive ==
    /\ w_pc = "mc_save_active"
    /\ _save_list(ACTIVE_KEY, Pop(w_first, _find_index(w_first, w_id)))
    /\ w_pc' = "mc_save_completed"
    /\ UNCHANGED <<progress_store, download_cancel_events, net, hvars,
                   w_id, wlists, w_err, wproto, wstream>>

MarkCompletedSaveCompleted ==
    /\ w_pc = "mc_save_completed"
    /\ _save_list(COMPLETED_KEY,
          Append(w_second, StampCompleted(w_first[_find_index(w_first, w_id)])))
    /\ w_pc' = AttemptReturns
    /\ UNCHANGED <<progress_store, download_cancel_events, net, hvars,
                   w_id, wlists, w_err, wproto, wstream>>

\* mark_failed as the worker calls it, one cache access at a time.
MarkFailedLoad ==
    /\ w_pc = "mf_load"
    /\ w_first' = get_active
    /\ w_pc' = IF _find_index(get_active, w_id) # 0 THEN "mf_load_failed"
               ELSE AttemptReturns
    /\ UNCHANGED <<shared, hvars, w_id, w_second, w_err, wproto, wstream>>

MarkFailedLoadFailed ==
    /\ w_pc = "mf_load_failed"
    /\ w_second' = get_failed
    /\ w_pc' = "mf_save_active"
    /\ UNCHANGED <<shared, hvars, w_id, w_first, w_err, wproto, wstream>>

MarkFailedSaveActive ==
    /\ w_pc = "mf_save_active"
    /\ _save_list(ACTIVE_KEY, Pop(w_first, _find_index(w_first, w_id)))
    /\ w_pc' = "mf_save_failed"
    /\ UNCHANGED <<progress_store, download_cancel_events, net, hvars,
                   w_id, wlists, w_err, wproto, wstream>>

MarkFailedSaveFailed ==
    /\ w_pc = "mf_save_failed"
    /\ _save_list(FAILED_KEY,
          Append(w_second, StampFailed(w_first[_find_index(w_first, w_id)], w_err)))
    /\ w_pc' = AttemptReturns
    /\ UNCHANGED <<progress_store, download_cancel_events, net, hvars,
                   w_id, wlists, w_err, wproto, wstream>>

\* download_file's finally clause; the attempt has returned after it.
_cleanup_cancel_event ==
    /\ w_pc = "cleanup"
    /\ download_cancel_events' = Unregister(download_cancel_events, w_id)
    /\ w_pc' = "sleep"
    /\ w_first' = <<>>
    /\ w_second' = <<>>
    /\ UNCHANGED <<queue_cache, progress_store, net, hvars,
                   w_id, w_err, wproto, wstream>>

\* download_worker: asyncio.sleep(30), then the next iteration.
WorkerSleep ==
    /\ w_pc = "sleep"
    /\ w_pc' = "scan"
    /\ w_id' = NoItem
    /\ w_err' = None
    /\ w_retry_count' = -1
    /\ w_stack' = <<>>
    /\ w_answers' = <<>>
    /\ w_waits' = <<>>
    /\ w_total' = 0
    /\ w_body' = 0
    /\ w_downloaded' = 0
    /\ w_last_progress' = -1
    /\ UNCHANGED <<shared, hvars, wlists>>

WorkerNext ==
    \/ WorkerScan
    \/ GetPendingItem
    \/ MarkDownloadingLoad
    \/ MarkDownloadingSave
    \/ _setup_cancel_event
    \/ InitProgress
    \/ GetDownloadForm
    \/ PostForm
    \/ ReadChunk
    \/ ChunkProgress
    \/ FinalProgress
    \/ MarkCompletedLoad
    \/ MarkCompletedLoadCompleted
    \/ MarkCompletedSaveActive
    \/ MarkCompletedSaveCompleted
    \/ MarkFailedLoad
    \/ MarkFailedLoadFailed
    \/ MarkFailedSaveActive
    \/ MarkFailedSaveFailed
    \/ _cleanup_cancel_event
    \/ WorkerSleep

StartupNext ==
    \/ ResetLoad
    \/ ResetSave
    \/ ResetProgress
    \/ start_download_worker

\* The worker with no request arriving.
WorkerSpec == WorkerInit /\ [][StartupNext \/ WorkerNext]_vars

\* The same, with the worker thread always scheduled again: its loop is the
\* only task of its event loop, and every sleep and every answer returns.
WorkerLive == WorkerSpec /\ WF_vars(WorkerNext)

\* The worker alone against each page the form lookup can be given.
FormSpec == FormInit /\ [][StartupNext \/ WorkerNext]_vars

\* The startup alone, on every store an earlier run can have left behind:
\* up to MaxItems records in each list, no identifier stored twice.
StoredLists(statuses, errors) ==
    UNION {[1..n -> {QueueItem(i, st, e) : i \in Ids, st \in statuses, e \in errors}] :
              n \in 0..MaxItems}

StartupInit ==
    /\ \E act \in StoredLists({"pending", "downloading"}, {None, ErrInterrupted}),
          fl \in StoredLists({"failed"}, {ErrException}),
          co \in StoredLists({"completed"}, {None}) :
          /\ \A i \in Ids : Occurrences(act \o fl \o co, i) <= 1
          /\ queue_cache = [k \in Keys |-> IF k = ACTIVE_KEY THEN act
                                           ELSE IF k = FAILED_KEY THEN fl
                                           ELSE IF k = COMPLETED_KEY THEN co
                                           ELSE <<>>]
          /\ next_id = Len(act \o fl \o co)
    /\ n_requests = 0
    /\ progress_store = [i \in Ids |-> NoEntry]
    /\ download_cancel_events = [i \in Ids |-> "absent"]
    /\ network = [chunks |-> RaceChunks, waits |-> RaceWaits, answers |-> {},
                  pages |-> {}]
    /\ w_pc = "not_started"
    /\ WorkerIdle
    /\ h_pc = "reset_load"
    /\ HandlerIdle

StartupSpec == StartupInit /\ [][StartupNext]_vars

\* ------------------------------------------------- the request handlers
\* The handlers run one at a time on the main thread's event loop (none of
\* them is suspended between its cache accesses), and every step of one can
\* fall between two steps of the worker thread.
Urls == {"", "https://example.com/x", "https://fastshare.cloud/x"}

IsAllowedUrl(url) == url = "https://fastshare.cloud/x"

\* A request with no item_id, or add with no URL or a URL of another domain:
\* answered 400 before anything is read.
RejectRequest ==
    /\ h_pc = "idle"
    /\ n_requests < MaxRequests
    /\ n_requests' = n_requests + 1
    /\ \/ \E op \in {"remove", "move", "retry", "cancel"} : h_op' = op
       \/ \E url \in Urls : ~IsAllowedUrl(url) /\ h_op' = "add"
    /\ h_pc' = "respond_400"
    /\ UNCHANGED <<store, wvars, h_id, h_first, h_second, h_event>>

\* add_to_queue_handler: the scrape of the page (h_second keeps the answer),
\* then add_to_queue's read.
AddLoad ==
    /\ h_pc = "idle"
    /\ n_requests < MaxRequests
    /\ n_requests' = n_requests + 1
    /\ next_id < MaxItems
    /\ \E url \in Urls : IsAllowedUrl(url)
    /\ next_id' = next_id + 1
    /\ h_op' = "add"
    /\ h_id' = next_id + 1
    /\ \E page \in MetadataPages : h_second' = <<page>>
    /\ h_first' = get_active
    /\ h_pc' = "add_save"
    /\ UNCHANGED <<queue_cache, progress_store, download_cancel_events,
                   network, wvars, h_event>>

AddSave ==
    /\ h_pc = "add_save"
    /\ LET info == extract_file_info(h_second[1])
       IN  _save_list(ACTIVE_KEY, Append(h_first, NewItem(h_id, info[1], info[2])))
    /\ h_pc' = "add_progress"
    /\ UNCHANGED <<progress_store, download_cancel_events, net, wvars,
                   h_op, h_id, h_first, h_second, h_event>>

AddProgress ==
    /\ h_pc = "add_progress"
    /\ progress_store' = [progress_store EXCEPT ![h_id] = 0]
    /\ h_pc' = "respond"
    /\ UNCHANGED <<queue_cache, download_cancel_events, net, wvars,
                   h_op, h_id, h_first, h_second, h_event>>

\* remove_item_handler: remove_from_queue.
RemoveLoad ==
    /\ h_pc = "idle"
    /\ n_requests < MaxRequests
    /\ n_requests' = n_requests + 1
    /\ \E item_id \in Ids :
          /\ h_id' = item_id
          /\ h_pc' = IF _find_index(get_active, item_id) # 0 THEN "remove_save"
                     ELSE "respond"
    /\ h_op' = "remove"
    /\ h_first' = get_active
    /\ UNCHANGED <<store, wvars, h_second, h_event>>

RemoveSave ==
    /\ h_pc = "remove_save"
    /\ _save_list(ACTIVE_KEY, Pop(h_first, _find_index(h_first, h_id)))
    /\ h_pc' = "respond"
    /\ UNCHANGED <<progress_store, download_cancel_events, net, wvars,
                   h_op, h_id, h_first, h_second, h_event>>

\* move_item_handler: move_in_queue; the list is written back even when the
\* item is at the boundary.
MoveLoad ==
    /\ h_pc = "idle"
    /\ n_requests < MaxRequests
    /\ n_requests' = n_requests + 1
    /\ \E item_id \in Ids, direction \in {"up", "down"} :
          LET idx == _find_index(get_active, item_id)
          IN  /\ h_id' = item_id
              /\ IF idx # 0
                 THEN /\ h_first' = Moved(get_active, idx, direction)
                      /\ h_pc' = "move_save"
                 ELSE /\ h_first' = get_active
                      /\ h_pc' = "respond"
              /\ h_op' = IF direction = "up" THEN "move_up" ELSE "move_down"
    /\ UNCHANGED <<store, wvars, h_second, h_event>>

MoveSave ==
    /\ h_pc = "move_save"
    /\ _save_list(ACTIVE_KEY, h_first)
    /\ h_pc' = "respond"
    /\ UNCHANGED <<progress_store, download_cancel_events, net, wvars,
                   h_op, h_id, h_first, h_second, h_event>>

clear_failed ==
    /\ h_pc = "idle"
    /\ n_requests < MaxRequests
    /\ n_requests' = n_requests + 1
    /\ _save_list(FAILED_KEY, <<>>)
    /\ h_op' = "clear_failed"
    /\ h_pc' = "respond"
    /\ UNCHANGED <<progress_store, download_cancel_events, next_id, network, wvars,
                   h_id, h_first, h_second, h_event>>

clear_completed ==
    /\ h_pc = "idle"
    /\ n_requests < MaxRequests
    /\ n_requests' = n_requests + 1
    /\ _save_list(COMPLETED_KEY, <<>>)
    /\ h_op' = "clear_completed"
    /\ h_pc' = "respond"
    /\ UNCHANGED <<progress_store, download_cancel_events, next_id, network, wvars,
                   h_id, h_first, h_second, h_event>>

\* retry_item_handler: retry_failed, then the progress entry is zeroed
\* whether or not the item was found.
RetryLoad ==
    /\ h_pc = "idle"
    /\ n_requests < MaxRequests
    /\ n_requests' = n_requests + 1
    /\ \E item_id \in Ids :
          /\ h_id' = item_id
          /\ h_pc' = IF _find_index(get_failed, item_id) # 0 THEN "retry_load_active"
                     ELSE "retry_progress"
    /\ h_op' = "retry"
    /\ h_first' = get_failed
    /\ UNCHANGED <<store, wvars, h_second, h_event>>

RetryLoadActive ==
    /\ h_pc = "retry_load_active"
    /\ h_second' = get_active
    /\ h_pc' = "retry_save_failed"
    /\ UNCHANGED <<shared, wvars, h_op, h_id, h_first, h_event>>

RetrySaveFailed ==
    /\ h_pc = "retry_save_failed"
    /\ _save_list(FAILED_KEY, Pop(h_first, _find_index(h_first, h_id)))
    /\ h_pc' = "retry_save_active"
    /\ UNCHANGED <<progress_store, download_cancel_events, net, wvars,
                   h_op, h_id, h_first, h_second, h_event>>

RetrySaveActive ==
    /\ h_pc = "retry_save_active"
    /\ _save_list(ACTIVE_KEY,
          Append(h_second, StampRetry(h_first[_find_index(h_first, h_id)])))
    /\ h_pc' = "retry_progress"
    /\ UNCHANGED <<progress_store, download_cancel_events, net, wvars,
                   h_op, h_id, h_first, h_second, h_event>>

RetryProgress ==
    /\ h_pc = "retry_progress"
    /\ progress_store' = [progress_store EXCEPT ![h_id] = 0]
    /\ h_pc' = "respond"
    /\ UNCHANGED <<queue_cache, download_cancel_events, net, wvars,
                   h_op, h_id, h_first, h_second, h_event>>

\* cancel_download_handler: cancel_download sets the signal when the registry
\* holds one, then fails the item and zeroes its progress.
CancelSignal ==
    /\ h_pc = "idle"
    /\ n_requests < MaxRequests
    /\ n_requests' = n_requests + 1
    /\ \E item_id \in Ids :
          /\ h_id' = item_id
          /\ h_event' = (download_cancel_events[item_id] # "absent")
          /\ download_cancel_events' =
                IF download_cancel_events[item_id] # "absent"
                THEN [download_cancel_events EXCEPT ![item_id] = "set"]
                ELSE download_cancel_events
    /\ h_op' = "cancel"
    /\ h_pc' = "cancel_load"
    /\ UNCHANGED <<queue_cache, progress_store, next_id, network, wvars, h_first, h_second>>

CancelLoad ==
    /\ h_pc = "cancel_load"
    /\ h_first' = get_active
    /\ h_pc' = IF _find_index(get_active, h_id) # 0 THEN "cancel_load_failed"
               ELSE "cancel_progress"
    /\ UNCHANGED <<shared, wvars, h_op, h_id, h_second, h_event>>

CancelLoadFailed ==
    /\ h_pc = "cancel_load_failed"
    /\ h_second' = get_failed
    /\ h_pc' = "cancel_save_active"
    /\ UNCHANGED <<shared, wvars, h_op, h_id, h_first, h_event>>

CancelSaveActive ==
    /\ h_pc = "cancel_save_active"
    /\ _save_list(ACTIVE_KEY, Pop(h_first, _find_index(h_first, h_id)))
    /\ h_pc' = "cancel_save_failed"
    /\ UNCHANGED <<progress_store, download_cancel_events, net, wvars,
                   h_op, h_id, h_first, h_second, h_event>>

CancelSaveFailed ==
    /\ h_pc = "cancel_save_failed"
    /\ _save_list(FAILED_KEY,
          Append(h_second,
                 StampFailed(h_first[_find_index(h_first, h_id)], ErrCancelled)))
    /\ h_pc' = "cancel_progress"
    /\ UNCHANGED <<progress_store, download_cancel_events, net, wvars,
                   h_op, h_id, h_first, h_second, h_event>>

CancelProgress ==
    /\ h_pc = "cancel_progress"
    /\ update_item_progress(h_id, 0)
    /\ h_pc' = "respond"
    /\ UNCHANGED <<queue_cache, download_cancel_events, net, wvars,
                   h_op, h_id, h_first, h_second, h_event>>

\* The answer: get_queue's view of the lists, or the 400 response.
Respond ==
    /\ h_pc \in {"respond", "respond_400"}
    /\ h_pc' = "idle"
    /\ h_op' = "none"
    /\ h_id' = NoItem
    /\ h_first' = <<>>
    /\ h_second' = <<>>
    /\ h_event' = FALSE
    /\ UNCHANGED <<shared, wvars>>

HandlerNext ==
    \/ RejectRequest
    \/ AddLoad
    \/ AddSave
    \/ AddProgress
    \/ RemoveLoad
    \/ RemoveSave
    \/ MoveLoad
    \/ MoveSave
    \/ clear_failed
    \/ clear_completed
    \/ RetryLoad
    \/ RetryLoadActive
    \/ RetrySaveFailed
    \/ RetrySaveActive
    \/ RetryProgress
    \/ CancelSignal
    \/ CancelLoad
    \/ CancelLoadFailed
    \/ CancelSaveActive
    \/ CancelSaveFailed
    \/ CancelProgress
    \/ Respond

Next == StartupNext \/ WorkerNext \/ HandlerNext

Spec == Init /\ [][Next]_vars

\* The same under fair scheduling: the startup runs to its end, the worker
\* thread is always scheduled again, and a handler that has started runs to
\* its response.  No request is forced to arrive.
LiveSpec ==
    /\ Spec
    /\ WF_vars(StartupNext)
    /\ WF_vars(WorkerNext)
    /\ WF_vars(h_pc # "idle" /\ HandlerNext)

\* =============================================================== claims
AllLists == get_active \o get_failed \o get_completed \o get_downloaded

HasRecord(items, item_id, status, error) ==
    \E j \in 1..Len(items) :
        /\ items[j].id = item_id
        /\ items[j].status = status
        /\ items[j].error = error

RegisteredIds == {i \in Ids : download_cancel_events[i] # "absent"}

\* The worker is inside download_file's try block for w_id, or in its finally.
AttemptRunning ==
    w_pc \in {"progress0", "get_form", "post", "chunk", "chunk_progress",
              "progress100", "mc_load", "mc_load_completed", "mc_save_active",
              "mc_save_completed", "mf_load", "mf_load_failed", "mf_save_active",
              "mf_save_failed", "cleanup"}

\* C1: at every instant no item identifier of the store is in two of the four
\* lists or twice in one of them.
C1_ExactlyOneList == \A i \in Ids : Occurrences(AllLists, i) <= 1

\* The status change each store operation under way makes: the status of the
\* record it read, and the status of the record it writes in its place.
Change(item, stamped) == <<item.status, stamped.status>>

WorkerChanges ==
    IF w_pc = "md_save"
    THEN LET item == w_first[_find_index(w_first, w_id)]
         IN  {Change(item, StampDownloading(item))}
    ELSE IF w_pc \in {"mc_load_completed", "mc_save_active", "mc_save_completed"}
    THEN LET item == w_first[_find_index(w_first, w_id)]
         IN  {Change(item, StampCompleted(item))}
    ELSE IF w_pc \in {"mf_load_failed", "mf_save_active", "mf_save_failed"}
    THEN LET item == w_first[_find_index(w_first, w_id)]
         IN  {Change(item, StampFailed(item, w_err))}
    ELSE {}

HandlerChanges ==
    IF h_pc \in {"cancel_load_failed", "cancel_save_active", "cancel_save_failed"}
    THEN LET item == h_first[_find_index(h_first, h_id)]
         IN  {Change(item, StampFailed(item, ErrCancelled))}
    ELSE IF h_pc \in {"retry_load_active", "retry_save_failed", "retry_save_active"}
    THEN LET item == h_first[_find_index(h_first, h_id)]
         IN  {Change(item, StampRetry(item))}
    ELSE {}

LegalTransitions ==
    { <<"pending", "downloading">>, <<"downloading", "completed">>,
      <<"downloading", "failed">>, <<"completed", "downloaded">>,
      <<"failed", "pending">> }

\* C2: every status change the worker or a request handler makes is one of
\* pending->downloading, downloading->completed, downloading->failed,
\* completed->downloaded, failed->pending.
C2_LegalTransitions ==
    \A c \in WorkerChanges \cup HandlerChanges :
        c[1] # c[2] => c \in LegalTransitions

\* C3: the cancellation registry never holds more than one entry.
C3_OneAttemptAtATime == Cardinality(RegisteredIds) <= 1

\* C3's case: the registry holds the entry of the running attempt while
\* another item waits, pending, in the active list.
C3_Witness ==
    /\ AttemptRunning
    /\ RegisteredIds = {w_id}
    /\ \E j \in 1..Len(get_active) :
          get_active[j].id # w_id /\ get_active[j].status = "pending"

\* C4: the registry holds an entry for an item only while the attempt for
\* that item is running; once the attempt has returned it holds none.
C4_EntryOnlyWhileRunning ==
    \A i \in Ids :
        download_cancel_events[i] # "absent" => (AttemptRunning /\ w_id = i)

\* C4's case: an attempt that a cancellation ended has returned, and the
\* registry is empty.
C4_Witness ==
    /\ w_pc = "sleep"
    /\ w_err = ErrCancelled
    /\ RegisteredIds = {}

\* C5: once a cancel request that found the download in flight (the only
\* request received) has finished and the attempt has returned, the item is
\* in the failed list (and in no other list) with status failed and the
\* cancellation message, and its recorded progress is 0.
C5_CancelInFlight ==
    (/\ n_requests = 1
     /\ h_pc = "respond"
     /\ h_op = "cancel"
     /\ h_event
     /\ w_pc = "sleep"
     /\ w_id = h_id)
    => /\ HasRecord(get_failed, h_id, "failed", ErrCancelled)
       /\ Occurrences(AllLists, h_id) = 1
       /\ progress_store[h_id] = 0

\* Every answer of the attempt so far is a page with a form or a text/html
\* answer to the submission.
OnlyHtmlAnswers == \A j \in 1..Len(w_answers) : w_answers[j] \in {"form", "html"}

Submissions == Cardinality({j \in 1..Len(w_answers) : w_answers[j] # "form"})

\* C6: when every submission of an attempt answers text/html, the attempt
\* retries at most 3 times, and after the answer to the third retry the item
\* is failed with no further wait or submission.
C6_AtMostThreeRetries ==
    OnlyHtmlAnswers =>
        /\ Len(w_waits) <= max_retries
        /\ Submissions = max_retries + 1 =>
              w_err = ErrMaxRetries /\ w_pc \notin {"get_form", "post"}

\* C7: when the submission answers text/html twice and a type of the
\* allow-list the third time, and nothing else fails, the attempt ends with
\* the item in the completed list, after exactly two backoff waits.
C7_CompletesAfterTwoWaits ==
    (/\ w_pc = "sleep"
     /\ w_answers = <<"form", "html", "form", "html", "form", "stream">>)
    => /\ HasRecord(get_completed, w_id, "completed", None)
       /\ Occurrences(AllLists, w_id) = 1
       /\ Len(w_waits) = 2

\* C7's case: such an attempt has returned.
C7_Witness ==
    /\ w_pc = "sleep"
    /\ w_answers = <<"form", "html", "form", "html", "form", "stream">>
    /\ w_waits = <<1, 1>>
    /\ HasRecord(get_completed, w_id, "completed", None)

\* The attempt has written its initial progress 0 and has not returned.
ProgressWindow ==
    w_pc \in {"get_form", "post", "chunk", "chunk_progress", "progress100",
              "mc_load", "mc_load_completed", "mc_save_active",
              "mc_save_completed", "mf_load", "mf_load_failed", "mf_save_active",
              "mf_save_failed", "cleanup"}

\* C8: within one download attempt the percent recorded for its item never
\* goes down.
C8_ProgressNeverDecreases ==
    [][(ProgressWindow /\ ProgressWindow')
          => progress_store'[w_id] >= progress_store[w_id]]_vars

\* C10: retry_failed(id) for an id of the failed list leaves no record of it
\* in the failed list it writes and puts it last in the active list it writes,
\* pending and with no error; for an id that is not in the failed list no
\* list is written.
C10_RetryMovesToActive ==
    [][/\ (h_pc = "retry_save_failed" /\ h_pc' = "retry_save_active")
            => h_id \notin IdsOf(get_failed')
       /\ (h_pc = "retry_save_active" /\ h_pc' = "retry_progress")
            => LET item == get_active'[Len(get_active')]
               IN  item.id = h_id /\ item.status = "pending" /\ item.error = None
       /\ (h_op' = "retry" /\ h_pc = "idle" /\ h_pc' = "retry_progress")
            => UNCHANGED queue_cache
       /\ (h_pc = "retry_progress" /\ h_pc' = "respond")
            => UNCHANGED queue_cache]_vars

\* C9: the failed list never holds two records with the same identifier.
C9_NoDuplicateFailed == \A i \in Ids : Occurrences(get_failed, i) <= 1

NoneDownloading(items) ==
    \A j \in 1..Len(items) : items[j].status # "downloading"

\* after is before with every downloading record made pending with a
\* non-empty error, and every other record and every position as it was.
IsReset(before, after) ==
    /\ Len(after) = Len(before)
    /\ \A j \in 1..Len(before) :
          IF before[j].status = "downloading"
          THEN /\ after[j].id = before[j].id
               /\ after[j].status = "pending"
               /\ after[j].error \notin {None, ""}
          ELSE after[j] = before[j]

\* C11: reset_stuck_downloads makes every downloading record of the active
\* list pending with a non-empty error, in place, changes no other record
\* and no other list, and leaves no active record with status downloading.
C11_ResetStuckDownloads ==
    [][(h_pc \in {"reset_load", "reset_save", "reset_progress"})
          => /\ IF h_pc = "reset_save"
                THEN IsReset(get_active, get_active')
                ELSE get_active' = get_active
             /\ get_failed' = get_failed
             /\ get_completed' = get_completed
             /\ get_downloaded' = get_downloaded
             /\ h_pc' \in {"reset_progress", "start_worker"}
                   => NoneDownloading(get_active')]_vars

\* C11's case: the reset has run on a list of one downloading item followed
\* by one pending item.
C11_Witness ==
    /\ h_pc = "start_worker"
    /\ get_active = <<QueueItem(2, "pending", ErrInterrupted),
                      QueueItem(1, "pending", None)>>
    /\ progress_store = <<0, 0>>

\* What the claim says move leaves of a list: the item and its neighbour in
\* the direction exchanged, or the list as it was at the boundary (or when
\* the item is not in it).
Exchanged(items, item_id, up) ==
    LET idx == _find_index(items, item_id)
        other == IF up THEN idx - 1 ELSE idx + 1
    IN  IF idx = 0 \/ other < 1 \/ other > Len(items) THEN items
        ELSE [j \in 1..Len(items) |->
                 IF j = idx THEN items[other]
                 ELSE IF j = other THEN items[idx]
                 ELSE items[j]]

\* C12: the write move makes to the active list leaves it unchanged when the
\* item is first and moves up or is last and moves down, and otherwise
\* exchanges the item with its neighbour and changes nothing else; no other
\* list is written.
C12_MoveExchangesNeighbours ==
    [][(h_pc = "move_save" /\ h_pc' = "respond")
          => /\ get_active' = Exchanged(get_active, h_id, h_op = "move_up")
             /\ {get_active'[j] : j \in 1..Len(get_active')}
                   = {get_active[j] : j \in 1..Len(get_active)}
             /\ get_failed' = get_failed
             /\ get_completed' = get_completed
             /\ get_downloaded' = get_downloaded]_vars

\* C13: when a cancel request (the only request received) that found its
\* item in the active list has finished, the item is in the failed list with
\* the cancellation message, it is not in the completed list, and no record
\* of it carries a transport error.
C13_CancelTakesPrecedence ==
    (/\ n_requests = 1
     /\ h_op = "cancel"
     /\ h_pc = "respond"
     /\ _find_index(h_first, h_id) # 0)
    => /\ HasRecord(get_failed, h_id, "failed", ErrCancelled)
       /\ h_id \notin IdsOf(get_completed)
       /\ ~HasRecord(get_failed, h_id, "failed", ErrException)

\* The attempt under way has had an exception raised in it.
HasRaised == \E j \in 1..Len(w_answers) : w_answers[j] = "exception"

\* The records of every item but item_id, list by list and in order.
OtherRecords(cache, item_id) ==
    [k \in Keys |-> SelectSeq(cache[k], LAMBDA r : r.id # item_id)]

C15_FirstPendingFirst ==
    [][/\ (w_pc \in {"first_scan", "scan"} /\ w_pc' = "get_pending")
            => \E j \in 1..Len(get_active) :
                  /\ get_active[j].id = w_id'
                  /\ get_active[j].status = "pending"
                  /\ \A k \in 1..(j - 1) : get_active[k].status # "pending"
       /\ (w_pc = "get_pending" /\ w_pc' = "md_load")
            => \E j \in 1..Len(get_active) :
                  /\ get_active[j].id = w_id
                  /\ get_active[j].status = "pending"]_vars

\* C15's case: the worker has read a list whose first record is downloading
\* and has taken the pending item after it.
C15_Witness ==
    /\ w_pc = "get_pending"
    /\ Len(get_active) = 2
    /\ get_active[1].status = "downloading"
    /\ get_active[2].status = "pending"
    /\ get_active[2].id = w_id

\* C16: the worker thread exists only once reset_stuck_downloads has run to
\* completion, and at the worker's first read of the active list no record
\* of it has status downloading.
C16_ResetBeforeWorker ==
    /\ w_pc # "not_started"
          => h_pc \notin {"reset_load", "reset_save", "reset_progress", "start_worker"}
    /\ w_pc = "first_scan" => NoneDownloading(get_active)

\* C16's case: the worker is about to read the active list for the first
\* time, and the list holds an item the reset took out of status downloading.
C16_Witness ==
    /\ w_pc = "first_scan"
    /\ \E j \in 1..Len(get_active) :
          get_active[j].status = "pending" /\ get_active[j].error = ErrInterrupted

\* C17: when the first form submission of an attempt is answered with a
\* status other than 200, the attempt ends with the item in the failed list
\* (and in no other) with error "Download request failed: <status>", no
\* backoff wait, no further request and no progress above 0.
C17_FirstSubmissionRejected ==
    (/\ w_pc \in {"mf_load", "mf_load_failed", "mf_save_active",
                   "mf_save_failed", "cleanup", "sleep"}
     /\ Len(w_answers) >= 2
     /\ SubSeq(w_answers, 1, 2) = <<"form", "status">>)
    => /\ w_answers = <<"form", "status">>
       /\ w_waits = <<>>
       /\ w_err = ErrRequestFailed
       /\ progress_store[w_id] = 0
       /\ w_pc = "sleep"
             => /\ HasRecord(get_failed, w_id, "failed", ErrRequestFailed)
                /\ Occurrences(AllLists, w_id) = 1

\* C17's case: such an attempt has returned.
C17_Witness ==
    /\ w_pc = "sleep"
    /\ w_answers = <<"form", "status">>
    /\ HasRecord(get_failed, w_id, "failed", ErrRequestFailed)

\* C18: an add request with a URL of the allowed domain is always carried
\* out; the active list it writes ends with the new item, pending and with
\* no error, and holds it once; the item has the placeholders "Unknown" and
\* "Unknown size" when the scrape raised or was answered with a status other
\* than 200; and the request leaves a progress entry of 0 for the item.
C18_EnqueueAlwaysAccepted ==
    [][/\ (h_pc = "idle" /\ h_op' = "add" /\ h_pc' # "respond_400")
            => h_pc' = "add_save"
       /\ (h_pc = "add_save" /\ h_pc' = "add_progress")
            => LET item == get_active'[Len(get_active')]
                   page == h_second[1]
               IN  /\ get_active' # <<>>
                   /\ item.id = h_id
                   /\ item.status = "pending"
                   /\ item.error = None
                   /\ Occurrences(get_active', h_id) = 1
                   /\ h_id \notin IdsOf(get_active)
                   /\ (page.raises \/ page.status # 200)
                         => item.title = "Unknown" /\ item.size = "Unknown size"
                   /\ (~page.raises /\ page.status = 200 /\ page.title # None)
                         => item.title = page.title
       /\ (h_pc = "add_progress" /\ h_pc' = "respond")
            => progress_store'[h_id] = 0]_vars

\* C18's case: an add request whose scrape raised has been carried out.
C18_Witness ==
    /\ h_pc = "respond"
    /\ h_op = "add"
    /\ h_second[1].raises
    /\ progress_store[h_id] = 0
    /\ \E j \in 1..Len(get_active) :
          /\ get_active[j].id = h_id
          /\ get_active[j].title = "Unknown"
          /\ get_active[j].size = "Unknown size"

\* C19: no step of a request answered 400 (a missing item identifier, a URL
\* that is missing or outside the allowed domain) and no step of a remove,
\* move, retry or cancel request whose identifier is in none of the four
\* lists changes the lists, the progress tracker or the cancellation
\* registry.
C19_InvalidRequestChangesNothing ==
    [][(/\ h_pc' # h_pc
        /\ \/ h_pc' = "respond_400"
           \/ h_pc = "respond_400"
           \/ /\ h_op' \in {"remove", "move_up", "move_down", "retry", "cancel"}
              /\ h_id' \notin IdsOf(AllLists)
              /\ h_id' \notin IdsOf(AllLists'))
          => UNCHANGED <<queue_cache, progress_store, download_cancel_events>>]_vars

StatusesOf(items) == {items[j].status : j \in 1..Len(items)}

\* C20: every record of the active list is pending or downloading, every
\* record of the failed list is failed, every record of the completed list
\* is completed and every record of the downloaded list is downloaded.
C20_StatusMatchesList ==
    /\ StatusesOf(get_active) \subseteq {"pending", "downloading"}
    /\ StatusesOf(get_failed) \subseteq {"failed"}
    /\ StatusesOf(get_completed) \subseteq {"completed"}
    /\ StatusesOf(get_downloaded) \subseteq {"downloaded"}

\* C20's case: a retry has put a failed item back in the active list while
\* another item is in the completed list.
C20_Witness ==
    /\ h_op = "retry"
    /\ h_pc = "respond"
    /\ HasRecord(get_active, h_id, "pending", None)
    /\ get_completed # <<>>

\* The forms of a page whose action begins with the download-path prefix.
Qualifying(page) == {j \in 1..Len(page) : page[j] = "free"}

\* The first qualifying form in document order, 0 when none qualifies.
FirstQualifying(page) ==
    IF Qualifying(page) = {} THEN 0
    ELSE CHOOSE j \in Qualifying(page) : \A k \in Qualifying(page) : j <= k

\* C21: once the first form lookup of an attempt has answered, for the page
\* it was given: it resolved exactly when some form of the page has an action
\* beginning with the download-path prefix, and to the first form if that
\* qualifies and otherwise to the first qualifying form in document order; it
\* failed only if no form of the page qualifies.
C21_FormLookupResolves ==
    (Len(w_answers) >= 1 /\ w_answers[1] \in {"form", "no_form"})
       => \A page \in network.pages :
             /\ _get_download_form(page) = FirstQualifying(page)
             /\ w_answers[1] = "form" <=> Qualifying(page) # {}

\* C22: an attempt in which an exception was raised (while the page was
\* fetched, the form looked up or submitted, or the body streamed, on the
\* first submission or on a retry) has, when it returns, left its item in the
\* failed list, and in no other, with the exception's message as its error.
C22_ExceptionFailsItem ==
    (w_pc = "sleep" /\ HasRaised)
    => /\ HasRecord(get_failed, w_id, "failed", ErrException)
       /\ Occurrences(AllLists, w_id) = 1

\* The messages mark_failed is given for a type that is neither on the
\* allow-list nor text/html.
InvalidTypeErrors ==
    {ErrInvalidType(ct) : ct \in {c \in ContentTypes :
                                    ~IsAllowedType(c) /\ ~IsHtmlType(c)}}

\* C23: the step in which a submission is answered 200 with a type that is
\* neither on the allow-list nor text/html goes straight to mark_failed with
\* "Invalid content type: <type>", with no backoff wait and no body to
\* stream; such an answer is the last of its attempt, and the attempt returns
\* with the item in the failed list under that error; and a submission's
\* answer is followed by a backoff wait only if it was text/html or raised.
C23_InvalidTypeFailsAtOnce ==
    [][/\ (w_pc = "post" /\ w_answers' = Append(w_answers, "invalid"))
            => /\ w_pc' = "mf_load"
               /\ w_err' \in InvalidTypeErrors
               /\ w_waits' = w_waits
               /\ w_body' = 0 /\ w_downloaded' = 0
       /\ (Len(w_answers) >= 1 /\ w_answers[Len(w_answers)] = "invalid")
            => /\ w_answers' \in {w_answers, <<>>}
               /\ w_waits' \in {w_waits, <<>>}
               /\ w_pc' \in {"mf_load_failed", "mf_save_active", "mf_save_failed",
                              "cleanup", "sleep", "scan"}
               /\ w_pc' = "sleep"
                     => /\ HasRecord(get_failed', w_id, "failed", w_err)
                        /\ Occurrences(AllLists', w_id) = 1
       /\ (w_pc = "post" /\ Len(w_waits') > Len(w_waits))
            => w_answers'[Len(w_answers')] \in {"html", "exception"}]_vars

\* C23's case: an attempt whose first submission was answered text/plain has
\* returned with the item failed under "Invalid content type: text/plain",
\* having waited and streamed nothing.
C23_Witness ==
    /\ w_pc = "sleep"
    /\ w_answers = <<"form", "invalid">>
    /\ w_waits = <<>>
    /\ progress_store[w_id] = 0
    /\ HasRecord(get_failed, w_id, "failed", ErrInvalidType(<<"text", "plain">>))

\* C24: in an attempt whose submissions have all answered text/html, the
\* backoff wait before retry k (k = 0, 1, 2) is 2^k: the waits are 1, 2 and 4
\* in this order.
C24_BackoffDoubles ==
    OnlyHtmlAnswers =>
        \A k \in 0..(max_retries - 1) :
            k + 1 <= Len(w_waits) => w_waits[k + 1] = Pow2(k)

\* The positions of the active list whose record has status downloading.
DownloadingRecords ==
    {j \in 1..Len(get_active) : get_active[j].status = "downloading"}

\* C25: once the startup reset is done, a record of the active list has
\* status downloading only while the worker is running the download attempt
\* of that item (from mark_downloading's write to the attempt's return), and
\* at most one record of the active list has status downloading.
C25_DownloadingIsCurrentAttempt ==
    (w_pc # "not_started") =>
        /\ \A j \in DownloadingRecords :
               /\ get_active[j].id = w_id
               /\ w_pc = "setup" \/ AttemptRunning
        /\ Cardinality(DownloadingRecords) <= 1

\* A retry request has just put back into the active list, pending and with
\* no error, the item a cancel request failed while its attempt was in
\* flight, and that attempt is still running.
RetriedWhileCancelledAttemptRuns ==
    /\ h_pc = "respond"
    /\ h_op = "retry"
    /\ h_id = w_id
    /\ HasRecord(h_first, h_id, "failed", ErrCancelled)
    /\ download_cancel_events[w_id] = "set"
    /\ AttemptRunning
    /\ HasRecord(get_active, w_id, "pending", None)
    /\ Occurrences(AllLists, w_id) = 1

\* C26: after an in-flight item was cancelled and then retried while the
\* cancelled attempt is still running, no step of that attempt changes the
\* item: it stays in the active list, and in no other, pending and with no
\* error.
C26_CancelledAttemptLeavesRetriedItem ==
    [][RetriedWhileCancelledAttemptRuns
          => /\ HasRecord(get_active', w_id, "pending", None)
             /\ Occurrences(AllLists', w_id) = 1]_vars

\* Every request of the run has been received and answered.
RequestsStopped == n_requests = MaxRequests /\ h_pc = "idle"

PendingInActive(item_id) == HasRecord(get_active, item_id, "pending", None)

\* C27: once the requests have stopped, an item that is pending in the active
\* list is eventually in the failed or in the completed list.
C27_PendingEventuallyEnds ==
    \A i \in Ids :
        (RequestsStopped /\ PendingInActive(i))
           ~> (i \in IdsOf(get_failed) \cup IdsOf(get_completed))

====
